---- MODULE Spec2Model ----
(***************************************************************************)
(* A model of mywc (src/mywc.c): word, line and character count with the   *)
(* option -C to leave "//" comments out of the word and character counts.  *)
(*                                                                         *)
(* Bytes are their integer codes, a file is a sequence of bytes, and the   *)
(* command line is the sequence argv[1..argc-1].  main is cut at its       *)
(* calls: one action per step of the argument loop, one for                *)
(* exclude_comments, one for wc, one for each printf that ends a line.     *)
(* The scans are operators that walk the stream as the loops of the code   *)
(* do, one fgetc at a time.                                                *)
(***************************************************************************)
EXTENDS Integers, Sequences, FiniteSets

VARIABLES
    argv,             \* the arguments after the program name
    stdin,            \* what standard input holds, staged into temp.txt
    libc,             \* the C library the build links: decides iswspace
    W, L, C,          \* which counts are printed (lines 105-107)
    ellide_comments,  \* main's local (line 218)
    numfiles,         \* main's local (line 219)
    i,                \* main's loop index (line 216)
    CHARS_EXCLUDED,   \* line 109
    WORDS_EXCLUDED,   \* line 110
    TOTAL_WORDS,      \* line 112
    TOTAL_LINES,      \* line 113
    TOTAL_CHARS,      \* line 114
    pc,               \* where main stands
    cur,              \* the file exclude_comments and wc are called with
    raw,              \* wc's locals words, lines, chars when its scan ended
    pending,          \* the numbers wc printed on the line not yet ended
    output,           \* the lines written to standard output
    done,             \* per file scanned: what lines 140-142 print or would print
    status            \* the exit status, -1 while running

vars == <<argv, stdin, libc, W, L, C, ellide_comments, numfiles, i,
          CHARS_EXCLUDED, WORDS_EXCLUDED, TOTAL_WORDS, TOTAL_LINES,
          TOTAL_CHARS, pc, cur, raw, pending, output, done, status>>

-----------------------------------------------------------------------------
(* Bounds *)

MaxLen == 4       \* longest enumerated byte stream
MaxArgs == 3      \* longest enumerated argument list

-----------------------------------------------------------------------------
(* Bytes *)

EOF == -1
SLASH == 47
NL == 10
SP == 32
NEL == 133        \* a byte some C libraries class as a space, wspace does not
EXIT_FAILURE == 1
NotSlash == 0     \* any value of an uninitialised int other than '/'

\* line 116-118
wspace(c) == c \in {9, 10, 11, 12, 13, 32}

\* iswspace of <wctype.h> in the "C" locale (the program never calls
\* setlocale).  Every library accepts the six bytes of wspace; the manual
\* at the head of the source (lines 81-87) records that the MacOS library
\* also accepts 133 and 160 while the Linux one does not.
iswspace(c) == wspace(c) \/ (libc = "darwin" /\ c \in {133, 160})

\* fgetc on a stream whose next unread byte is at position p
Get(S, p) == IF p >= 1 /\ p <= Len(S) THEN S[p] ELSE EOF

-----------------------------------------------------------------------------
(* wc: the counting scan, lines 127-138 *)

\* a mutant of WordInc: a word cut short by end of file is not counted
WordIncAtDelimiterOnly(words, c) == IF c = EOF THEN words ELSE words + 1

\* line 134, reached with c the byte that ended the inner loop
WordInc(words, c) == words + 1

\* a mutant of LineInc: the unterminated last line counts as a line
LineIncAtEofToo(lines, c) == IF c = NL \/ c = EOF THEN lines + 1 ELSE lines

\* lines 136-137
LineInc(lines, c) == IF c = NL THEN lines + 1 ELSE lines

\* line 133: the byte that ended the word is counted when wspace accepts it
DelimInc(chars, c) == IF wspace(c) THEN chars + 1 ELSE chars

RECURSIVE WcWord(_, _, _)
\* lines 130-132: p is the next unread position; the result is the byte
\* that ended the loop, the position after it, and chars
WcWord(S, p, chars) ==
    LET c == Get(S, p) IN
    IF ~iswspace(c) /\ c # EOF
    THEN WcWord(S, p + 1, chars + 1)
    ELSE [c |-> c, p |-> p + 1, chars |-> chars]

RECURSIVE WcScan(_, _, _, _, _)
\* lines 127-138
WcScan(S, p, words, lines, chars) ==
    LET c == Get(S, p) IN
    IF c = EOF
    THEN [words |-> words, lines |-> lines, chars |-> chars]
    ELSE IF ~iswspace(c)
         THEN LET r == WcWord(S, p + 1, chars + 1) IN
              WcScan(S, r.p, WordInc(words, r.c), LineInc(lines, r.c),
                     DelimInc(r.chars, r.c))
         ELSE WcScan(S, p + 1, words, LineInc(lines, c), chars + 1)

\* lines 121-123 and the loop
WcCounts(S) == WcScan(S, 1, 0, 0, 0)

-----------------------------------------------------------------------------
(* exclude_comments, first pass: lines 158-170 *)

RECURSIVE CommentChars(_, _, _)
\* lines 164-166: the result is the byte that ended the loop, the position
\* after it, and CHARS_EXCLUDED
CommentChars(S, p, ce) ==
    LET c == Get(S, p) IN
    IF c # NL /\ c # EOF
    THEN CommentChars(S, p + 1, ce + 1)
    ELSE [c |-> c, p |-> p + 1, ce |-> ce]

RECURSIVE CharPass(_, _, _, _)
\* lines 160-170; c2 is declared at line 159 without a value, so the first
\* call passes whatever the stack held
CharPass(S, p, c2, ce) ==
    LET c1 == Get(S, p) IN
    IF c1 = EOF
    THEN ce
    ELSE IF c1 = SLASH /\ c2 = SLASH
         THEN LET r == CommentChars(S, p + 1, ce + 2) IN
              CharPass(S, r.p, r.c, r.ce)
         ELSE CharPass(S, p + 1, c1, ce)

-----------------------------------------------------------------------------
(* exclude_comments, second pass: lines 179-206 *)

\* a mutant of GluedCorrection: the correction is applied to every comment
GluedCorrectionAlways(we, no_space_before_comment) == we - 1

\* line 197
GluedCorrection(we, no_space_before_comment) ==
    IF no_space_before_comment THEN we - 1 ELSE we

RECURSIVE CommentWords(_, _, _, _)
\* lines 192-196
CommentWords(S, p, c4, we) ==
    LET c3 == Get(S, p) IN
    IF c3 # NL /\ c3 # EOF
    THEN CommentWords(S, p + 1, c3,
                      IF ~wspace(c4) /\ wspace(c3) THEN we + 1 ELSE we)
    ELSE [c |-> c3, p |-> p + 1,
          we |-> IF ~wspace(c4) THEN we + 1 ELSE we]

RECURSIVE Token(_, _, _, _, _, _)
\* lines 188-204: p is the next unread position
Token(S, p, c1, c2, no_space_before_comment, we) ==
    IF ~wspace(c1) /\ c1 # EOF
    THEN IF c1 = SLASH /\ c2 = SLASH
         THEN LET r == CommentWords(S, p, c1, we) IN
              Token(S, r.p, r.c, c2, no_space_before_comment,
                    GluedCorrection(r.we, no_space_before_comment))
         ELSE Token(S, p + 1, Get(S, p), c1, no_space_before_comment, we)
    ELSE [p |-> p, we |-> we]

RECURSIVE WordPass(_, _, _, _)
\* lines 180-206.  c2 is declared at line 183 without a value and is read
\* at line 189 when the token starts with '/': garb is the set of token
\* positions at which that read yields '/'
WordPass(S, p, garb, we) ==
    LET c == Get(S, p) IN
    IF c = EOF
    THEN we
    ELSE IF ~wspace(c)
         THEN LET t == Token(S, p + 1, c,
                             IF p \in garb THEN SLASH ELSE NotSlash,
                             c # SLASH, we) IN
              WordPass(S, t.p, garb, t.we)
         ELSE WordPass(S, p + 1, garb, we)

\* the values an uninitialised int can be told apart by
Garbage == {SLASH, NotSlash}

\* the positions of S at which an uninitialised c2 can be read
SlashAt(S) == {p \in 1..Len(S) : S[p] = SLASH}

-----------------------------------------------------------------------------
(* wc after its scan: lines 140-148 *)

\* lines 140-142 with every count shown
Adjusted(r, ce, we) == <<r.lines, r.words - we, r.chars - ce>>

\* lines 140-142: the numbers printed
Printed(r, ce, we) ==
    (IF L THEN <<r.lines>> ELSE <<>>)
    \o (IF W THEN <<r.words - we>> ELSE <<>>)
    \o (IF C THEN <<r.chars - ce>> ELSE <<>>)

\* a mutant of Accumulated: the raw counts are added to the totals
AccumulatedRaw(t, r, ce, we) == <<t[1] + r.lines, t[2] + r.words, t[3] + r.chars>>

\* lines 144-146; t is <<TOTAL_LINES, TOTAL_WORDS, TOTAL_CHARS>>
Accumulated(t, r, ce, we) ==
    <<t[1] + r.lines, t[2] + (r.words - we), t[3] + (r.chars - ce)>>

\* a mutant of ExclusionReset: the counters are left as they are
ExclusionKept(ce, we) == <<ce, we>>

\* line 148
ExclusionReset(ce, we) == <<0, 0>>

\* a mutant of CanOpen: the second fopen of exclude_comments goes unchecked
CanOpenSecondUnchecked(f, which) == which = "pass2" \/ f.fail # which

\* fopen(...) != NULL at line 125 ("wc"), 157 ("pass1"), 178 ("pass2")
CanOpen(f, which) == f.fail # which

-----------------------------------------------------------------------------
(* Arguments and files *)

\* an argument that starts with '-': text is what follows the '-'
Flag(text) ==
    [dash |-> TRUE, text |-> text, name |-> "", content |-> <<>>,
     fail |-> "none"]

\* any other argument names a file; fail names the fopen that returns
\* NULL for it: "none", "pass1" (line 156), "pass2" (line 177), "wc" (124)
File(name, content, fail) ==
    [dash |-> FALSE, text |-> <<>>, name |-> name, content |-> content,
     fail |-> fail]

NoFile == File("", <<>>, "none")

Fails == {"none", "pass1", "pass2", "wc"}

\* the sequences over A of length at most n
SeqsUpTo(A, n) == UNION {[1..k -> A] : k \in 0..n}

-----------------------------------------------------------------------------
(* main *)

\* line 217
AllCounts ==
    \/ Len(argv) = 0
    \/ ~argv[1].dash
    \/ argv[1].text = <<"C">>

Start ==
    /\ pc = "start"
    /\ W' = AllCounts
    /\ L' = AllCounts
    /\ C' = AllCounts
    /\ i' = 1
    /\ pc' = "loop"
    /\ UNCHANGED <<argv, stdin, libc, ellide_comments, numfiles,
                   CHARS_EXCLUDED, WORDS_EXCLUDED, TOTAL_WORDS, TOTAL_LINES,
                   TOTAL_CHARS, cur, raw, pending, output, done, status>>

\* whether the loop of lines 224-229 meets the character ch
Has(text, ch) == \E j \in 1..Len(text) : text[j] = ch

\* lines 223-229
ParseFlags ==
    /\ pc = "loop"
    /\ i <= Len(argv)
    /\ argv[i].dash
    /\ ellide_comments' = (ellide_comments \/ Has(argv[i].text, "C"))
    /\ W' = (W \/ Has(argv[i].text, "w"))
    /\ L' = (L \/ Has(argv[i].text, "l"))
    /\ C' = (C \/ Has(argv[i].text, "c"))
    /\ i' = i + 1
    /\ UNCHANGED <<argv, stdin, libc, numfiles, CHARS_EXCLUDED,
                   WORDS_EXCLUDED, TOTAL_WORDS, TOTAL_LINES, TOTAL_CHARS, pc,
                   cur, raw, pending, output, done, status>>

\* lines 230-233, up to the first call
OpenArg ==
    /\ pc = "loop"
    /\ i <= Len(argv)
    /\ ~argv[i].dash
    /\ numfiles' = numfiles + 1
    /\ cur' = argv[i]
    /\ pc' = IF ellide_comments THEN "exclude" ELSE "wc"
    /\ UNCHANGED <<argv, stdin, libc, W, L, C, ellide_comments, i,
                   CHARS_EXCLUDED, WORDS_EXCLUDED, TOTAL_WORDS, TOTAL_LINES,
                   TOTAL_CHARS, raw, pending, output, done, status>>

\* exit(EXIT_FAILURE) at lines 151, 174, 210
Abort ==
    /\ pc' = "exit"
    /\ status' = EXIT_FAILURE

\* exclude_comments, lines 155-213
ExcludeComments ==
    /\ pc = "exclude"
    /\ IF ~CanOpen(cur, "pass1")
       THEN /\ Abort
            /\ UNCHANGED <<CHARS_EXCLUDED, WORDS_EXCLUDED>>
       ELSE \E g \in Garbage, garb \in SUBSET SlashAt(cur.content) :
              /\ CHARS_EXCLUDED' = CharPass(cur.content, 1, g, CHARS_EXCLUDED)
              /\ IF ~CanOpen(cur, "pass2")
                 THEN /\ Abort
                      /\ UNCHANGED WORDS_EXCLUDED
                 ELSE /\ WORDS_EXCLUDED' =
                            WordPass(cur.content, 1, garb, WORDS_EXCLUDED)
                      /\ pc' = "wc"
                      /\ UNCHANGED status
    /\ UNCHANGED <<argv, stdin, libc, W, L, C, ellide_comments, numfiles, i,
                   TOTAL_WORDS, TOTAL_LINES, TOTAL_CHARS, cur, raw, pending,
                   output, done>>

\* wc, lines 120-153; it returns to line 234 or, for standard input, 255
Wc ==
    /\ pc = "wc"
    /\ IF ~CanOpen(cur, "wc")
       THEN /\ Abort
            /\ UNCHANGED <<CHARS_EXCLUDED, WORDS_EXCLUDED, TOTAL_WORDS,
                           TOTAL_LINES, TOTAL_CHARS, raw, pending, done>>
       ELSE LET r == WcCounts(cur.content)
                t == Accumulated(<<TOTAL_LINES, TOTAL_WORDS, TOTAL_CHARS>>,
                                 r, CHARS_EXCLUDED, WORDS_EXCLUDED)
                z == ExclusionReset(CHARS_EXCLUDED, WORDS_EXCLUDED)
            IN  /\ raw' = r
                /\ pending' = Printed(r, CHARS_EXCLUDED, WORDS_EXCLUDED)
                /\ done' = Append(done,
                       [name |-> cur.name, content |-> cur.content,
                        ellide |-> ellide_comments,
                        counts |-> Adjusted(r, CHARS_EXCLUDED,
                                            WORDS_EXCLUDED)])
                /\ TOTAL_LINES' = t[1]
                /\ TOTAL_WORDS' = t[2]
                /\ TOTAL_CHARS' = t[3]
                /\ CHARS_EXCLUDED' = z[1]
                /\ WORDS_EXCLUDED' = z[2]
                /\ pc' = IF numfiles = 0 THEN "newline" ELSE "name"
                /\ UNCHANGED status
    /\ UNCHANGED <<argv, stdin, libc, W, L, C, ellide_comments, numfiles, i,
                   cur, output>>

\* line 234 and the loop's i++
PrintName ==
    /\ pc = "name"
    /\ output' = Append(output, [nums |-> pending, name |-> cur.name])
    /\ pending' = <<>>
    /\ i' = i + 1
    /\ pc' = "loop"
    /\ UNCHANGED <<argv, stdin, libc, W, L, C, ellide_comments, numfiles,
                   CHARS_EXCLUDED, WORDS_EXCLUDED, TOTAL_WORDS, TOTAL_LINES,
                   TOTAL_CHARS, cur, raw, done, status>>

\* lines 238-240 and, when a file was given, line 259
EndLoop ==
    /\ pc = "loop"
    /\ i > Len(argv)
    /\ output' = IF numfiles > 1
                 THEN Append(output,
                        [nums |-> <<TOTAL_LINES, TOTAL_WORDS, TOTAL_CHARS>>,
                         name |-> "total"])
                 ELSE output
    /\ pc' = IF numfiles = 0 THEN "stdin" ELSE "exit"
    /\ status' = IF numfiles = 0 THEN status ELSE 0
    /\ UNCHANGED <<argv, stdin, libc, W, L, C, ellide_comments, numfiles, i,
                   CHARS_EXCLUDED, WORDS_EXCLUDED, TOTAL_WORDS, TOTAL_LINES,
                   TOTAL_CHARS, cur, raw, pending, done>>

\* lines 241-253, up to the first call: standard input becomes temp.txt
ReadStdin ==
    /\ pc = "stdin"
    /\ cur' = stdin
    /\ pc' = IF ellide_comments THEN "exclude" ELSE "wc"
    /\ UNCHANGED <<argv, stdin, libc, W, L, C, ellide_comments, numfiles, i,
                   CHARS_EXCLUDED, WORDS_EXCLUDED, TOTAL_WORDS, TOTAL_LINES,
                   TOTAL_CHARS, raw, pending, output, done, status>>

\* lines 255-259
PrintNewline ==
    /\ pc = "newline"
    /\ output' = Append(output, [nums |-> pending, name |-> ""])
    /\ pending' = <<>>
    /\ pc' = "exit"
    /\ status' = 0
    /\ UNCHANGED <<argv, stdin, libc, W, L, C, ellide_comments, numfiles, i,
                   CHARS_EXCLUDED, WORDS_EXCLUDED, TOTAL_WORDS, TOTAL_LINES,
                   TOTAL_CHARS, cur, raw, done>>

Next ==
    \/ Start
    \/ ParseFlags
    \/ OpenArg
    \/ ExcludeComments
    \/ Wc
    \/ PrintName
    \/ EndLoop
    \/ ReadStdin
    \/ PrintNewline

-----------------------------------------------------------------------------
(* Initial states *)

\* the state of the globals and of main's locals when main is entered
Entered ==
    /\ W = FALSE
    /\ L = FALSE
    /\ C = FALSE
    /\ ellide_comments = FALSE
    /\ numfiles = 0
    /\ i = 0
    /\ CHARS_EXCLUDED = 0
    /\ WORDS_EXCLUDED = 0
    /\ TOTAL_WORDS = 0
    /\ TOTAL_LINES = 0
    /\ TOTAL_CHARS = 0
    /\ pc = "start"
    /\ cur = NoFile
    /\ raw = [words |-> 0, lines |-> 0, chars |-> 0]
    /\ pending = <<>>
    /\ output = <<>>
    /\ done = <<>>
    /\ status = -1

Libcs == {"glibc", "darwin"}

\* "x //x\n" and "/x//x x"
FileA == <<120, SP, SLASH, SLASH, 120, NL>>
FileB == <<SLASH, 120, SLASH, SLASH, 120, SP, 120>>

DriverFlags == {<<"C">>, <<"l">>, <<"w">>, <<"c">>, <<"c", "l">>}

DriverArgs ==
    {Flag(t) : t \in DriverFlags}
    \cup {File("a", FileA, f) : f \in Fails}
    \cup {File("b", FileB, f) : f \in Fails}

HasFile(a) == \E k \in 1..Len(a) : ~a[k].dash

\* Command lines of up to MaxArgs arguments over two files; standard input
\* is read only when no argument names a file.
Init ==
    /\ Entered
    /\ libc \in Libcs
    /\ argv \in SeqsUpTo(DriverArgs, MaxArgs)
    /\ stdin \in IF HasFile(argv)
                 THEN {File("temp.txt", <<>>, "none")}
                 ELSE {File("temp.txt", S, f) : S \in {FileA, FileB}, f \in Fails}

Spec == Init /\ [][Next]_vars

\* the byte streams of the scans: '/', newline, space, a letter, and a
\* byte on which iswspace and wspace can differ
Alphabet == {SLASH, NL, SP, 120, NEL}

\* "foo // bar baz\n"
FooBarBaz == <<102, 111, 111, SP, SLASH, SLASH, SP, 98, 97, 114, SP, 98, 97,
               122, NL>>
\* "foo//bar baz\n"
FooGlued == <<102, 111, 111, SLASH, SLASH, 98, 97, 114, SP, 98, 97, 122, NL>>
\* "/x//y\n"
SlashToken == <<SLASH, 120, SLASH, SLASH, 121, NL>>
\* "hello world\n"
HelloWorld == <<104, 101, 108, 108, 111, SP, 119, 111, 114, 108, 100, NL>>

Streams == SeqsUpTo(Alphabet, MaxLen)
           \cup {FooBarBaz, FooGlued, SlashToken, HelloWorld}

\* One byte stream, given as a file or on standard input, with and
\* without -C.
InitStream ==
    /\ Entered
    /\ libc \in Libcs
    /\ \E S \in Streams :
         \/ /\ argv \in {<<File("f", S, "none")>>,
                         <<Flag(<<"C">>), File("f", S, "none")>>}
            /\ stdin = File("temp.txt", <<>>, "none")
         \/ /\ argv \in {<<>>, <<Flag(<<"C">>)>>}
            /\ stdin = File("temp.txt", S, "none")

SpecStream == InitStream /\ [][Next]_vars

-----------------------------------------------------------------------------
(* What the counts are measured against *)

\* the number of newline bytes of S
Newlines(S) == Cardinality({p \in 1..Len(S) : S[p] = NL})

\* the number of maximal runs of bytes of S that iswspace rejects
Runs(S) ==
    Cardinality({p \in 1..Len(S) :
                   ~iswspace(S[p]) /\ (p = 1 \/ iswspace(S[p - 1]))})

\* byte p of S lies in a comment: a pair "//" starts at or before p on
\* the line of p
InComment(S, p) ==
    \E q \in 1..p :
       /\ S[q] = SLASH
       /\ q + 1 <= Len(S)
       /\ S[q + 1] = SLASH
       /\ \A k \in q..p : S[k] # NL

RECURSIVE StripFrom(_, _)
StripFrom(S, p) ==
    IF p > Len(S)
    THEN <<>>
    ELSE (IF InComment(S, p) THEN <<>> ELSE <<S[p]>>) \o StripFrom(S, p + 1)

\* S with every comment deleted up to its newline: sed 's://.*$::g'
Strip(S) == StripFrom(S, 1)

\* wc has just returned for cur
AfterWc == pc \in {"name", "newline"}

\* the entry wc has just added to done
Rep == done[Len(done)]

-----------------------------------------------------------------------------
(* Claims *)

\* C1: with -C, the word count reported for a stream is the word count of
\* the stream with its comments deleted (sed 's://.*$::g' | wc -w).
C1_WordsOfStripped ==
    (AfterWc /\ Rep.ellide) => Rep.counts[2] = Runs(Strip(cur.content))

\* C2: with -C, the byte count reported for a stream is the length of the
\* stream with its comments deleted, the newline that ends a comment kept.
C2_BytesOfStripped ==
    (AfterWc /\ Rep.ellide) => Rep.counts[3] = Len(Strip(cur.content))

\* C4: the scanner's word count is the number of maximal runs of
\* non-whitespace bytes: 1 for a stream without delimiter (or with only a
\* trailing newline), 0 for an empty or all-whitespace stream.
C4_WordsAreRuns ==
    AfterWc =>
      LET S == cur.content IN
      /\ raw.words = Runs(S)
      /\ (S # <<>> /\ \A p \in 1..Len(S) : ~iswspace(S[p])) => raw.words = 1
      /\ (\A p \in 1..Len(S) : iswspace(S[p])) => raw.words = 0

\* a state of C4: a word that end of file cuts short, after another word
C4_Witness ==
    /\ AfterWc
    /\ Len(cur.content) >= 3
    /\ ~iswspace(cur.content[Len(cur.content)])
    /\ raw.words = 2

\* C5: the scanner's line count is the number of newline bytes, whether
\* the outer loop reads the newline or it ends a word; bytes after the
\* last newline add no line.
C5_LinesAreNewlines == AfterWc => raw.lines = Newlines(cur.content)

\* a state of C5: a newline that ends a word, one the outer loop reads,
\* and a byte after the last newline
C5_Witness ==
    /\ AfterWc
    /\ cur.content = <<120, NL, NL, 120>>
    /\ raw.lines = 2

\* C6: the scanner's raw byte count is the length of the stream, also
\* when a word ends at a byte iswspace accepts and wspace does not; the
\* empty stream yields (0,0,0).
C6_BytesAreLength ==
    AfterWc =>
      /\ raw.chars = Len(cur.content)
      /\ cur.content = <<>> => raw = [words |-> 0, lines |-> 0, chars |-> 0]

\* C9: for "foo // bar baz\n" with -C the raw word count is 4, the
\* pre-pass sets excluded_words to 2 and the reported word count is 2.
C9_Original ==
    (cur.content = FooBarBaz /\ ellide_comments) =>
      /\ pc = "wc" => WORDS_EXCLUDED = 2
      /\ AfterWc => (raw.words = 4 /\ Rep.counts[2] = 2)

\* C9 as amended: for "foo // bar baz\n" with -C the raw word count is 4,
\* the pre-pass sets excluded_words to 3 (the marker token "//", bar and
\* baz) and the reported word count is 1.
C9_Amended ==
    (cur.content = FooBarBaz /\ ellide_comments) =>
      /\ pc = "wc" => WORDS_EXCLUDED = 3
      /\ AfterWc => (raw.words = 4 /\ Rep.counts[2] = 1)

\* a state of C9: wc has reported "foo // bar baz\n" under -C
C9_Witness ==
    /\ cur.content = FooBarBaz
    /\ ellide_comments
    /\ AfterWc
    /\ Rep.counts[2] = 1

\* the flag characters among c, l, w that the arguments give
Given(a) ==
    {ch \in {"l", "w", "c"} : \E k \in 1..Len(a) : a[k].dash /\ Has(a[k].text, ch)}

\* of the counts <<lines, words, bytes>>, those of the flags in g, in order
Selected(counts, g) ==
    (IF "l" \in g THEN <<counts[1]>> ELSE <<>>)
    \o (IF "w" \in g THEN <<counts[2]>> ELSE <<>>)
    \o (IF "c" \in g THEN <<counts[3]>> ELSE <<>>)

\* C7: when a flag among c, l, w is given, every per-file line shows the
\* counts whose flags were given and no others, in line/word/byte order.
C7_OnlyRequestedCounts ==
    (AfterWc /\ Given(argv) # {}) =>
      pending = Selected(Rep.counts, Given(argv))

RECURSIVE SumCounts(_, _)
\* the component-wise sum of the counts of d[1..k]
SumCounts(d, k) ==
    IF k = 0
    THEN <<0, 0, 0>>
    ELSE LET s == SumCounts(d, k - 1) IN
         <<s[1] + d[k].counts[1], s[2] + d[k].counts[2],
           s[3] + d[k].counts[3]>>

\* C3: with two or more files that all open, the numbers of the "total"
\* line are the component-wise sums of the files' adjusted counts.
C3_TotalIsSum ==
    (pc = "exit" /\ status = 0 /\ numfiles > 1) =>
      /\ Len(done) = numfiles
      /\ output[Len(output)] =
           [nums |-> SumCounts(done, Len(done)), name |-> "total"]

\* a state of C3: two files around a -C, the second one with a comment
\* taken out of its counts
C3_Witness ==
    /\ pc = "exit"
    /\ status = 0
    /\ Len(argv) = 3
    /\ ~argv[1].dash
    /\ argv[2] = Flag(<<"C">>)
    /\ ~argv[3].dash
    /\ done[2].counts # done[1].counts
    /\ done[2].counts[3] < Len(done[2].content)
    /\ output[3].name = "total"

\* an fopen of the call main stands before returns NULL
OpenFails ==
    \/ pc = "exclude" /\ cur.fail \in {"pass1", "pass2"}
    \/ pc = "wc" /\ cur.fail = "wc"

\* the number of file arguments before argv[k]
FilesBefore(k) == Cardinality({j \in 1..(k - 1) : ~argv[j].dash})

\* C8: when a file cannot be opened, by wc or by either pass of
\* exclude_comments, the process ends there with a failure status: no
\* later argument is processed, the failed file gets no line, no "total"
\* line is printed and the lines already printed stay as they are.
C8_OpenFailureStops ==
    /\ [](pc = "exit" /\ status # 0 =>
            /\ pending = <<>>
            /\ Len(output) = Len(done)
            /\ \A k \in 1..Len(output) : output[k].name = done[k].name
            /\ IF numfiles = 0
               THEN output = <<>> /\ cur = stdin
               ELSE /\ i <= Len(argv)
                    /\ cur = argv[i]
                    /\ Len(output) = FilesBefore(i))
    /\ [][/\ pc # "exit"
          /\ OpenFails => /\ pc' = "exit"
                          /\ status' = EXIT_FAILURE
                          /\ output' = output
                          /\ pending' = <<>>
                          /\ i' = i
                          /\ numfiles' = numfiles]_vars

\* a state of C8: under -C a first file was reported, then the second
\* fopen of exclude_comments failed on the next file
C8_Witness ==
    /\ pc = "exit"
    /\ status = EXIT_FAILURE
    /\ cur.fail = "pass2"
    /\ ellide_comments
    /\ Len(output) = 1
    /\ output[1].name # cur.name
    /\ CHARS_EXCLUDED > 0

\* what lines 140-142 can report for a file S scanned on its own, with
\* (e) or without exclusion
Alone(S, e) ==
    IF e
    THEN {Adjusted(WcCounts(S), CharPass(S, 1, g, 0), WordPass(S, 1, garb, 0)) :
            g \in Garbage, garb \in SUBSET SlashAt(S)}
    ELSE {Adjusted(WcCounts(S), 0, 0)}

\* C10: the exclusion counters are (0,0) whenever the processing of a file
\* begins (its pre-pass, or its counting scan when there is no pre-pass)
\* and again as soon as wc has applied them, so the counts reported for a
\* file are those of that file scanned on its own.
C10_ExclusionSingleUse ==
    /\ (pc # "exit" /\ ~(pc = "wc" /\ ellide_comments)) =>
          (CHARS_EXCLUDED = 0 /\ WORDS_EXCLUDED = 0)
    /\ \A k \in 1..Len(done) :
          done[k].counts \in Alone(done[k].content, done[k].ellide)

\* a state of C10: a file whose comment was excluded, then a second file
C10_Witness ==
    /\ pc = "name"
    /\ Len(done) = 2
    /\ done[1].ellide
    /\ done[1].counts # Adjusted(WcCounts(done[1].content), 0, 0)
    /\ CHARS_EXCLUDED = 0

====
